---- MODULE Spec2Model ----
(***************************************************************************)
(* Model of the chunked transcription pipeline (split_and_transcribe.py,   *)
(* called from app.py) and of the HTML post-processing                      *)
(* (portfolio_generator.py: sanitize_html, deduplicate_sections).           *)
(***************************************************************************)
EXTENDS Integers, Sequences, FiniteSets, TLC

VARIABLES fs, pc, stem, dur, i, start, exc, result, segs, calls, outs, touched, runs,
          phase, doc, raw, out

vars == <<fs, pc, stem, dur, i, start, exc, result, segs, calls, outs, touched, runs,
          phase, doc, raw, out>>

pipeVars ==
    <<fs, pc, stem, dur, i, start, exc, result, segs, calls, outs, touched, runs>>

htmlVars == <<phase, doc, raw, out>>

(***************************************************************************)
(* Bounds of the model and constants of the program.                       *)
(***************************************************************************)
\* SEGMENT_MS = 10 * 60 * 1000
SEGMENT_MS == 600000

\* sources hold up to MaxWindows full windows, plus a remainder
MaxWindows == 2

\* invocations of split_and_transcribe in one behaviour
MaxRuns == 2

\* most top-level sections of a fragment of sections without nesting
MaxSections == 5

\* most top-level sections of a fragment whose sections may hold a section
MaxNested == 3

\* most pieces of text and tags in a fragment given to sanitize_html
MaxPieces == 3

Procs == {1, 2}

Stems == {"a", "b"}

LF == "\n"

Whitespace == {" ", LF, "\t"}

\* durations (ms) a readable source can have: 0, and around each window edge
Durations ==
    {d \in {q * SEGMENT_MS + r : q \in 0..MaxWindows,
                                 r \in {0, 1, SEGMENT_MS \div 2}} :
        d <= MaxWindows * SEGMENT_MS + SEGMENT_MS \div 2}

\* sources of two concurrent requests hold up to MaxConcWindows full windows
MaxConcWindows == 1

\* durations (ms) of the sources of two concurrent requests
ConcDurations == {q * SEGMENT_MS + 1 : q \in 0..MaxConcWindows}

\* content of a source file the decoder cannot read
Undecodable == -1

\* most segments a source of the model has
MaxSegs == MaxWindows + 1

\* what the engine can write for one segment
Texts == {<<"x">>, <<" ", "y", LF>>}

\* what the engine can print on its error stream
Stderrs == {"e1", "e2"}

(***************************************************************************)
(* Text helpers.                                                           *)
(***************************************************************************)
RECURSIVE LStrip(_)
LStrip(s) ==
    IF s = <<>> THEN <<>>
    ELSE IF Head(s) \in Whitespace THEN LStrip(Tail(s)) ELSE s

RECURSIVE RStrip(_)
RStrip(s) ==
    IF s = <<>> THEN <<>>
    ELSE IF s[Len(s)] \in Whitespace THEN RStrip(SubSeq(s, 1, Len(s) - 1)) ELSE s

\* str.strip()
Strip(s) == RStrip(LStrip(s))

(***************************************************************************)
(* The file system: a path maps to <<>> (no such file) or <<content>>.     *)
(***************************************************************************)
Absent == <<>>

File(c) == <<c>>

Exists(f, path) == f[path] # Absent

\* Path.unlink(missing_ok=True)
Unlink(f, path) == [f EXCEPT ![path] = Absent]

\* file_path: uploads / file.filename, whose stem is base
SourcePath(base) == <<"uploads", base, 0, "audio">>

\* as ChunkPath, were the chunk named without the source's stem
ChunkPathFixedName(base, k) == <<"chunks", "a", k, "mp3">>

\* CHUNKS_DIR / f"{base}_part{i}.mp3"
ChunkPath(base, k) == <<"chunks", base, k, "mp3">>

\* CHUNKS_DIR / f"{base}_part{i}.txt"
PartPath(base, k) == <<"chunks", base, k, "txt">>

\* CHUNKS_DIR / f"{chunk_path.stem}.txt", the path transcribe_chunk returns
EngineOutPath(chunk) == <<"chunks", chunk[2], chunk[3], "txt">>

\* OUTPUT_DIR / f"{base}_full.txt"
FullPath(base) == <<"output", base, 0, "txt">>

Paths ==
    {SourcePath(b) : b \in Stems} \cup {FullPath(b) : b \in Stems}
    \cup {ChunkPath(b, k) : b \in Stems, k \in 1..MaxSegs}
    \cup {PartPath(b, k) : b \in Stems, k \in 1..MaxSegs}

NoExc == [type |-> "none", detail |-> ""]

NoResult == [kind |-> "none", path |-> <<>>, exc |-> NoExc]

(***************************************************************************)
(* Markup: a fragment is a sequence of tokens (a tag, or one character of  *)
(* text); the parser turns it into the tree's nodes in document order,     *)
(* each with its depth.                                                    *)
(***************************************************************************)
O(n) == [k |-> "open", v |-> n]

C(n) == [k |-> "close", v |-> n]

Ch(c) == [k |-> "char", v |-> c]

Txt(s) == [j \in 1..Len(s) |-> Ch(s[j])]

Range(s) == {s[j] : j \in 1..Len(s)}

\* the spaces the parser folds (BeautifulSoup.ASCII_SPACES)
AsciiSpaces == {" ", LF, "\t"}

\* endData: a string of spaces only becomes one line break or one space
Collapse(buf) ==
    IF Range(buf) \subseteq AsciiSpaces
    THEN IF LF \in Range(buf) THEN <<LF>> ELSE <<" ">>
    ELSE buf

Flush(nodes, stack, buf) ==
    IF buf = <<>> THEN nodes
    ELSE Append(nodes, [kind |-> "text", name |-> "", depth |-> Len(stack),
                        text |-> Collapse(buf)])

\* an end tag closes the innermost open element of its name and all inside
\* it; an end tag with no open element is dropped
PopTo(stack, n) ==
    IF n \notin Range(stack) THEN stack
    ELSE LET j == CHOOSE x \in 1..Len(stack) :
                     /\ stack[x] = n
                     /\ \A y \in (x + 1)..Len(stack) : stack[y] # n
         IN  SubSeq(stack, 1, j - 1)

RECURSIVE ParseFrom(_, _, _, _, _)
ParseFrom(tokens, k, stack, buf, nodes) ==
    IF k > Len(tokens) THEN Flush(nodes, stack, buf)
    ELSE LET t == tokens[k]
         IN  IF t.k = "char"
             THEN ParseFrom(tokens, k + 1, stack, Append(buf, t.v), nodes)
             ELSE IF t.k = "open"
             THEN ParseFrom(tokens, k + 1, Append(stack, t.v), <<>>,
                            Append(Flush(nodes, stack, buf),
                                   [kind |-> "tag", name |-> t.v,
                                    depth |-> Len(stack), text |-> <<>>]))
             ELSE ParseFrom(tokens, k + 1, PopTo(stack, t.v), <<>>,
                            Flush(nodes, stack, buf))

\* BeautifulSoup(html, "html.parser")
Parse(tokens) == ParseFrom(tokens, 1, <<>>, <<>>, <<>>)

RECURSIVE CloseAll(_)
CloseAll(stack) ==
    IF stack = <<>> THEN <<>>
    ELSE <<C(stack[Len(stack)])>> \o CloseAll(SubSeq(stack, 1, Len(stack) - 1))

RECURSIVE SerFrom(_, _, _)
SerFrom(nodes, k, stack) ==
    IF k > Len(nodes) THEN CloseAll(stack)
    ELSE IF Len(stack) > nodes[k].depth
    THEN <<C(stack[Len(stack)])>> \o SerFrom(nodes, k, SubSeq(stack, 1, Len(stack) - 1))
    ELSE IF nodes[k].kind = "tag"
    THEN <<O(nodes[k].name)>> \o SerFrom(nodes, k + 1, Append(stack, nodes[k].name))
    ELSE Txt(nodes[k].text) \o SerFrom(nodes, k + 1, stack)

\* str(soup)
Serialize(nodes) == SerFrom(nodes, 1, <<>>)

\* the nodes inside node s
Desc(nodes, s) ==
    {j \in (s + 1)..Len(nodes) :
        \A x \in (s + 1)..j : nodes[x].depth > nodes[s].depth}

(***************************************************************************)
(* sanitize_html                                                           *)
(***************************************************************************)
\* the backtick character of a text
Backtick == "BACKTICK"

\* the closing fence marker: three backticks
Fence == <<Backtick, Backtick, Backtick>>

FenceHtml == Fence \o <<"h", "t", "m", "l">>

\* old in s
Contains(s, old) ==
    \E j \in 1..(Len(s) - Len(old) + 1) : SubSeq(s, j, j + Len(old) - 1) = old

\* s.replace(old, "")
RECURSIVE Remove(_, _)
Remove(s, old) ==
    IF Len(s) < Len(old) THEN s
    ELSE IF SubSeq(s, 1, Len(old)) = old
    THEN Remove(SubSeq(s, Len(old) + 1, Len(s)), old)
    ELSE <<Head(s)>> \o Remove(Tail(s), old)

\* as StripFences, were only the bare fence marker removed
StripFencesOnly(text) == Remove(text, Fence)

\* tag.replace(<fence>html, "").replace(<fence>, "")
StripFences(text) == Remove(Remove(text, FenceHtml), Fence)

\* every text node holding a fence is replaced by its text without fences
SanitizeNodes(nodes) ==
    [j \in 1..Len(nodes) |->
        IF nodes[j].kind = "text" /\ Contains(nodes[j].text, Fence)
        THEN [nodes[j] EXCEPT !.text = StripFences(nodes[j].text)]
        ELSE nodes[j]]

sanitize_html(raw_html) == Serialize(SanitizeNodes(Parse(raw_html)))

(***************************************************************************)
(* deduplicate_sections                                                    *)
(***************************************************************************)
\* soup.find_all("section"), in document order
RECURSIVE FindAll(_, _, _)
FindAll(nodes, name, k) ==
    IF k > Len(nodes) THEN <<>>
    ELSE IF nodes[k].kind = "tag" /\ nodes[k].name = name
    THEN <<k>> \o FindAll(nodes, name, k + 1)
    ELSE FindAll(nodes, name, k + 1)

\* section.find("h2"): the first h2 inside the section, 0 when there is none
\* (a decomposed element has no contents left)
Find(nodes, s, name, removed) ==
    LET hs == {j \in Desc(nodes, s) : nodes[j].kind = "tag" /\ nodes[j].name = name}
    IN  IF s \in removed \/ hs = {} THEN 0
        ELSE CHOOSE j \in hs : \A x \in hs : j <= x

\* h2.text: the text of every string inside the element
RECURSIVE TextOf(_, _, _)
TextOf(nodes, h, k) ==
    IF k > Len(nodes) \/ k \notin Desc(nodes, h) THEN <<>>
    ELSE (IF nodes[k].kind = "text" THEN nodes[k].text ELSE <<>>)
         \o TextOf(nodes, h, k + 1)

\* as Title, were the heading's text not trimmed
TitleNoStrip(nodes, h) == TextOf(nodes, h, h + 1)

\* title = h2.text.strip()
Title(nodes, h) == Strip(TextOf(nodes, h, h + 1))

\* as Visit, were a section without h2 given the empty title as its key
VisitNoHeadingCheck(nodes, s, st) ==
    LET h2 == Find(nodes, s, "h2", st.removed)
        title == IF h2 = 0 THEN <<>> ELSE Strip(TextOf(nodes, h2, h2 + 1))
    IN  IF s \in st.removed THEN st
        ELSE IF title \in st.seen
        THEN [st EXCEPT !.removed = @ \cup {s} \cup Desc(nodes, s)]
        ELSE [st EXCEPT !.seen = @ \cup {title}]

\* one pass of the loop body over section sections[k]; st = [seen, removed]
Visit(nodes, s, st) ==
    LET h2 == Find(nodes, s, "h2", st.removed)
    IN  IF h2 = 0 THEN st
        ELSE IF Title(nodes, h2) \in st.seen
        THEN [st EXCEPT !.removed = @ \cup {s} \cup Desc(nodes, s)]
        ELSE [st EXCEPT !.seen = @ \cup {Title(nodes, h2)}]

RECURSIVE Loop(_, _, _, _)
Loop(nodes, sections, k, st) ==
    IF k > Len(sections) THEN st
    ELSE Loop(nodes, sections, k + 1, Visit(nodes, sections[k], st))

RECURSIVE Without(_, _, _)
Without(nodes, removed, k) ==
    IF k > Len(nodes) THEN <<>>
    ELSE (IF k \in removed THEN <<>> ELSE <<nodes[k]>>) \o Without(nodes, removed, k + 1)

\* the tree after section.decompose() of every repeated section
DedupNodes(nodes) ==
    Without(nodes,
            Loop(nodes, FindAll(nodes, "section", 1), 1,
                 [seen |-> {}, removed |-> {}]).removed,
            1)

deduplicate_sections(html) == Serialize(DedupNodes(Parse(html)))

(***************************************************************************)
(* split_and_transcribe, one step per file or engine operation.            *)
(***************************************************************************)
\* as Call, were the transcript of an earlier call left in place
CallKeepsTranscript(p, audios) ==
    /\ \E base \in Stems, audio \in audios :
          /\ stem' = [stem EXCEPT ![p] = base]
          /\ fs' = [fs EXCEPT ![SourcePath(base)] = File(audio)]
          /\ touched' = [touched EXCEPT ![p] = {}]
    /\ runs' = runs + 1
    /\ pc' = [pc EXCEPT ![p] = "load"]
    /\ dur' = [dur EXCEPT ![p] = 0]
    /\ i' = [i EXCEPT ![p] = 0]
    /\ start' = [start EXCEPT ![p] = 0]
    /\ exc' = [exc EXCEPT ![p] = NoExc]
    /\ result' = [result EXCEPT ![p] = NoResult]
    /\ segs' = [segs EXCEPT ![p] = <<>>]
    /\ calls' = [calls EXCEPT ![p] = <<>>]
    /\ outs' = [outs EXCEPT ![p] = <<>>]
    /\ UNCHANGED htmlVars

\* api_transcribe stores the upload and calls split_and_transcribe, which
\* removes a transcript left under the same name
Call(p, audios) ==
    /\ \E base \in Stems, audio \in audios :
          /\ stem' = [stem EXCEPT ![p] = base]
          /\ fs' = Unlink([fs EXCEPT ![SourcePath(base)] = File(audio)],
                          FullPath(base))
          /\ touched' = [touched EXCEPT ![p] = {FullPath(base)}]
    /\ runs' = runs + 1
    /\ pc' = [pc EXCEPT ![p] = "load"]
    /\ dur' = [dur EXCEPT ![p] = 0]
    /\ i' = [i EXCEPT ![p] = 0]
    /\ start' = [start EXCEPT ![p] = 0]
    /\ exc' = [exc EXCEPT ![p] = NoExc]
    /\ result' = [result EXCEPT ![p] = NoResult]
    /\ segs' = [segs EXCEPT ![p] = <<>>]
    /\ calls' = [calls EXCEPT ![p] = <<>>]
    /\ outs' = [outs EXCEPT ![p] = <<>>]
    /\ UNCHANGED htmlVars

\* a request, served after the one before it has ended
Invoke(p) ==
    /\ pc[p] \in {"idle", "done"}
    /\ runs < MaxRuns
    /\ Call(p, Durations \cup {Undecodable})

\* one of two requests served at the same time
InvokeConcurrent(p) ==
    /\ pc[p] = "idle"
    /\ Call(p, ConcDurations \cup {Undecodable})

\* audio = AudioSegment.from_file(str(file_path)), then the first test of
\* range(0, len(audio), SEGMENT_MS)
Load(p) ==
    /\ pc[p] = "load"
    /\ LET src == fs[SourcePath(stem[p])]
           readable == src # Absent /\ src[1] # Undecodable
       IN  IF readable
           THEN /\ dur' = [dur EXCEPT ![p] = src[1]]
                /\ i' = [i EXCEPT ![p] = 1]
                /\ pc' = [pc EXCEPT ![p] = IF 0 < src[1] THEN "export" ELSE "final"]
                /\ exc' = exc
           ELSE /\ exc' = [exc EXCEPT ![p] = [type |-> "IOFailure", detail |-> "decode"]]
                /\ pc' = [pc EXCEPT ![p] = "final"]
                /\ UNCHANGED <<dur, i>>
    /\ UNCHANGED <<fs, stem, start, result, segs, calls, outs, touched, runs>>
    /\ UNCHANGED htmlVars

\* as SliceEnd, were the slice's end not clamped
SliceEndUnclamped(s, d) == s + SEGMENT_MS

\* audio[start:start + SEGMENT_MS]: the slice's end is clamped to len(audio)
SliceEnd(s, d) == IF s + SEGMENT_MS < d THEN s + SEGMENT_MS ELSE d

\* audio[start:start + SEGMENT_MS].export(str(chunk_path), format="mp3"); the
\* encoder opens the output file before it encodes, so a failed export leaves
\* the file or not
Export(p) ==
    /\ pc[p] = "export"
    /\ LET chunk == ChunkPath(stem[p], i[p])
           end == SliceEnd(start[p], dur[p])
       IN  \E outcome \in {"ok", "fail", "fail_file_left"} :
              IF outcome = "ok"
              THEN /\ fs' = [fs EXCEPT ![chunk] = File(<<start[p], end>>)]
                   /\ segs' = [segs EXCEPT ![p] = Append(@, <<i[p], start[p], end>>)]
                   /\ pc' = [pc EXCEPT ![p] = "engine"]
                   /\ exc' = exc
              ELSE /\ fs' = IF outcome = "fail_file_left"
                            THEN [fs EXCEPT ![chunk] = File(<<>>)]
                            ELSE fs
                   /\ exc' = [exc EXCEPT ![p] = [type |-> "IOFailure", detail |-> "export"]]
                   /\ pc' = [pc EXCEPT ![p] = "final"]
                   /\ segs' = segs
    /\ touched' = [touched EXCEPT ![p] = @ \cup {ChunkPath(stem[p], i[p])}]
    /\ UNCHANGED <<stem, dur, i, start, result, calls, outs, runs>>
    /\ UNCHANGED htmlVars

\* transcribe_chunk: one run of the engine on the chunk; on a non-zero exit
\* CalledProcessError (carrying stderr) is re-raised, and the engine has left
\* a part of its output (when it printed e1) or none
TranscribeChunk(p) ==
    /\ pc[p] = "engine"
    /\ LET chunk == ChunkPath(stem[p], i[p])
       IN  \E ok \in BOOLEAN, t \in Texts, e \in Stderrs, left \in BOOLEAN :
              /\ ok => Exists(fs, chunk) /\ e = "e1" /\ left
              /\ ~ok => t = <<"x">> /\ left = (e = "e1")
              /\ calls' = [calls EXCEPT ![p] =
                              Append(@, [idx |-> i[p], ok |-> ok,
                                         err |-> IF ok THEN "" ELSE e])]
              /\ IF ok
                 THEN /\ fs' = [fs EXCEPT ![EngineOutPath(chunk)] = File(t)]
                      /\ outs' = [outs EXCEPT ![p] = Append(@, t)]
                      /\ pc' = [pc EXCEPT ![p] = "append"]
                      /\ exc' = exc
                 ELSE /\ fs' = IF left
                               THEN [fs EXCEPT ![EngineOutPath(chunk)] = File(t)]
                               ELSE fs
                      /\ exc' = [exc EXCEPT ![p] = [type |-> "EngineFailure", detail |-> e]]
                      /\ pc' = [pc EXCEPT ![p] = "cleanup"]
                      /\ outs' = outs
    /\ touched' = [touched EXCEPT ![p] =
                       @ \cup {ChunkPath(stem[p], i[p]),
                               EngineOutPath(ChunkPath(stem[p], i[p]))}]
    /\ UNCHANGED <<stem, dur, i, start, result, segs, runs>>
    /\ UNCHANGED htmlVars

\* with full_txt.open("a") as out_f, part_txt.open("r") as in_f:
\*     out_f.write(in_f.read().strip() + "\n")
AppendTranscript(p) ==
    /\ pc[p] = "append"
    /\ LET full == FullPath(stem[p])
           part == EngineOutPath(ChunkPath(stem[p], i[p]))
           old == IF Exists(fs, full) THEN fs[full][1] ELSE <<>>
       IN  IF Exists(fs, part)
           THEN /\ fs' = [fs EXCEPT ![full] = File(old \o Strip(fs[part][1]) \o <<LF>>)]
                /\ exc' = exc
           ELSE /\ fs' = [fs EXCEPT ![full] = File(old)]
                /\ exc' = [exc EXCEPT ![p] = [type |-> "IOFailure", detail |-> "read"]]
    /\ pc' = [pc EXCEPT ![p] = "cleanup"]
    /\ touched' = [touched EXCEPT ![p] =
                       @ \cup {FullPath(stem[p]),
                               EngineOutPath(ChunkPath(stem[p], i[p]))}]
    /\ UNCHANGED <<stem, dur, i, start, result, segs, calls, outs, runs>>
    /\ UNCHANGED htmlVars

\* as Cleanup, were a failed segment skipped and the loop continued
CleanupSkipPolicy(p) ==
    /\ pc[p] = "cleanup"
    /\ fs' = Unlink(Unlink(fs, ChunkPath(stem[p], i[p])), PartPath(stem[p], i[p]))
    /\ exc' = [exc EXCEPT ![p] = NoExc]
    /\ i' = [i EXCEPT ![p] = @ + 1]
    /\ start' = [start EXCEPT ![p] = @ + SEGMENT_MS]
    /\ pc' = [pc EXCEPT ![p] =
                 IF start[p] + SEGMENT_MS < dur[p] THEN "export" ELSE "final"]
    /\ touched' = [touched EXCEPT ![p] =
                       @ \cup {ChunkPath(stem[p], i[p]), PartPath(stem[p], i[p])}]
    /\ UNCHANGED <<stem, dur, result, segs, calls, outs, runs>>
    /\ UNCHANGED htmlVars

\* the inner finally: both temporary files are unlinked, then the exception
\* propagates or the loop goes on to the next start
Cleanup(p) ==
    /\ pc[p] = "cleanup"
    /\ fs' = Unlink(Unlink(fs, ChunkPath(stem[p], i[p])), PartPath(stem[p], i[p]))
    /\ IF exc[p] # NoExc
       THEN /\ pc' = [pc EXCEPT ![p] = "final"]
            /\ UNCHANGED <<i, start>>
       ELSE /\ i' = [i EXCEPT ![p] = @ + 1]
            /\ start' = [start EXCEPT ![p] = @ + SEGMENT_MS]
            /\ pc' = [pc EXCEPT ![p] =
                         IF start[p] + SEGMENT_MS < dur[p] THEN "export" ELSE "final"]
    /\ touched' = [touched EXCEPT ![p] =
                       @ \cup {ChunkPath(stem[p], i[p]), PartPath(stem[p], i[p])}]
    /\ UNCHANGED <<stem, dur, exc, result, segs, calls, outs, runs>>
    /\ UNCHANGED htmlVars

\* the outer finally unlinks the source; then the exception reaches the caller
\* or full_txt is returned
Final(p) ==
    /\ pc[p] = "final"
    /\ fs' = Unlink(fs, SourcePath(stem[p]))
    /\ result' = [result EXCEPT ![p] =
                     IF exc[p] # NoExc
                     THEN [kind |-> "raise", path |-> <<>>, exc |-> exc[p]]
                     ELSE [kind |-> "return", path |-> FullPath(stem[p]), exc |-> NoExc]]
    /\ pc' = [pc EXCEPT ![p] = "done"]
    /\ UNCHANGED <<stem, dur, i, start, exc, segs, calls, outs, touched, runs>>
    /\ UNCHANGED htmlVars

Step(p) ==
    \/ Invoke(p)
    \/ Load(p)
    \/ Export(p)
    \/ TranscribeChunk(p)
    \/ AppendTranscript(p)
    \/ Cleanup(p)
    \/ Final(p)

PipeInit ==
    /\ fs = [path \in Paths |-> Absent]
    /\ pc = [p \in Procs |-> "idle"]
    /\ stem = [p \in Procs |-> "a"]
    /\ dur = [p \in Procs |-> 0]
    /\ i = [p \in Procs |-> 0]
    /\ start = [p \in Procs |-> 0]
    /\ exc = [p \in Procs |-> NoExc]
    /\ result = [p \in Procs |-> NoResult]
    /\ segs = [p \in Procs |-> <<>>]
    /\ calls = [p \in Procs |-> <<>>]
    /\ outs = [p \in Procs |-> <<>>]
    /\ touched = [p \in Procs |-> {}]
    /\ runs = 0

Init ==
    /\ PipeInit
    /\ phase = "none"
    /\ doc = <<>>
    /\ raw = <<>>
    /\ out = <<>>

\* one request at a time
Next == Step(1)

Spec == Init /\ [][Next]_vars

\* two requests served concurrently
NextConc ==
    \E p \in Procs :
        \/ InvokeConcurrent(p)
        \/ Load(p)
        \/ Export(p)
        \/ TranscribeChunk(p)
        \/ AppendTranscript(p)
        \/ Cleanup(p)
        \/ Final(p)

SpecConc == Init /\ [][NextConc]_vars

(***************************************************************************)
(* The post-processing of one generated fragment.                          *)
(***************************************************************************)
\* a heading is <<>> (no h2) or <<text>>
FlatHeads == {<<>>, << <<"A">> >>, << <<" ", "A", " ">> >>, << <<"B">> >>, << <<"C">> >>}

NestHeads == {<<>>, << <<"A">> >>, << <<"B">> >>}

FlatShapes == {[h |-> x, child |-> <<>>] : x \in FlatHeads}

NestedShapes ==
    {[h |-> x, child |-> c] :
        x \in NestHeads,
        c \in {<<>>} \cup {<<[h |-> y, child |-> <<>>]>> : y \in NestHeads}}

\* the fragments of sections: each section has its body text, unlike any other
Docs ==
    UNION {[1..n -> FlatShapes] : n \in 0..MaxSections}
    \cup UNION {[1..n -> NestedShapes] : n \in 1..MaxNested}

Body(j) == "b" \o ToString(j)

ChildBody(j) == "c" \o ToString(j)

RenderHead(h) == IF h = <<>> THEN <<>> ELSE <<O("h2")>> \o Txt(h[1]) \o <<C("h2")>>

RenderSection(sec, j) ==
    <<O("section")>> \o RenderHead(sec.h) \o <<Ch(Body(j))>>
    \o (IF sec.child = <<>> THEN <<>>
        ELSE <<O("section")>> \o RenderHead(sec.child[1].h)
             \o <<Ch(ChildBody(j)), C("section")>>)
    \o <<C("section")>>

\* the markup of the sections of d whose index is in keep
RECURSIVE RenderFrom(_, _, _)
RenderFrom(d, keep, j) ==
    IF j > Len(d) THEN <<>>
    ELSE (IF j \in keep THEN RenderSection(d[j], j) ELSE <<>>)
         \o RenderFrom(d, keep, j + 1)

RenderDoc(d) == RenderFrom(d, 1..Len(d), 1)

Pieces ==
    {Txt(FenceHtml), Txt(Fence), Txt(<<Backtick>>), Txt(<<LF>>),
     Txt(<<"h", "t", "m", "l">>), Txt(<<"X">>), <<O("section")>>, <<C("section")>>}

RECURSIVE Flatten(_)
Flatten(ps) == IF ps = <<>> THEN <<>> ELSE Head(ps) \o Flatten(Tail(ps))

\* the fenced fragment of the scenario
Scenario ==
    Txt(FenceHtml \o <<LF>>)
    \o <<O("section"), O("h2")>> \o Txt(<<"S", "k", "i", "l", "l", "s">>) \o <<C("h2")>>
    \o Txt(<<"X">>) \o <<C("section")>> \o Txt(Fence)

FenceInputs ==
    {Scenario} \cup {Flatten(ps) : ps \in UNION {[1..n -> Pieces] : n \in 0..MaxPieces}}

InitHtml ==
    /\ PipeInit
    /\ phase = "input"
    /\ out = <<>>
    /\ \E input \in [d : Docs, fenced : {FALSE}] \cup [f : FenceInputs, fenced : {TRUE}] :
          /\ doc = IF input.fenced THEN <<>> ELSE input.d
          /\ raw = IF input.fenced THEN input.f ELSE RenderDoc(input.d)

\* clean_html = sanitize_html(generated)
SanitizeHtml ==
    /\ phase = "input"
    /\ out' = sanitize_html(raw)
    /\ phase' = "sanitized"
    /\ UNCHANGED <<doc, raw>>
    /\ UNCHANGED pipeVars

\* deduped_html = deduplicate_sections(clean_html)
DeduplicateSections ==
    /\ phase = "input"
    /\ out' = deduplicate_sections(raw)
    /\ phase' = "deduped"
    /\ UNCHANGED <<doc, raw>>
    /\ UNCHANGED pipeVars

NextHtml == SanitizeHtml \/ DeduplicateSections

SpecHtml == InitHtml /\ [][NextHtml]_vars

(***************************************************************************)
(* The properties of the pipeline.                                         *)
(***************************************************************************)
\* ceil(d / w)
Ceil(d, w) == (d + w - 1) \div w

\* the trimmed texts, each followed by one line break, in order
RECURSIVE Concat(_)
Concat(ts) == IF ts = <<>> THEN <<>> ELSE Strip(Head(ts)) \o <<LF>> \o Concat(Tail(ts))

Returned(p) == pc[p] = "done" /\ result[p].kind = "return"

Raised(p) == pc[p] = "done" /\ result[p].kind = "raise"

\* no temporary file of p's stem is on disk
NoTemporaries(p) ==
    \A k \in 1..MaxSegs :
        /\ ~Exists(fs, ChunkPath(stem[p], k))
        /\ ~Exists(fs, PartPath(stem[p], k))

\* the engine failed on the segment it was last given
EngineFailed(p) == calls[p] # <<>> /\ ~calls[p][Len(calls[p])].ok

\* C1: after any invocation, returned or failed, no temporary segment file and
\* no per-segment transcript file of the source's stem remains, and the source
\* file is removed.
C1_NoArtifactLeft ==
    \A p \in Procs :
        pc[p] = "done" => NoTemporaries(p) /\ ~Exists(fs, SourcePath(stem[p]))

\* C2: when the engine fails on segment k >= 2, the aggregate transcript file
\* does not hold the text of segments 1..k-1 after the failed invocation.
C2_NoPartialTranscript ==
    \A p \in Procs :
        ( /\ Raised(p)
          /\ EngineFailed(p)
          /\ Len(calls[p]) >= 2
          /\ \A k \in 1..Len(outs[p]) : Strip(outs[p][k]) # <<>> )
        => ( \/ ~Exists(fs, FullPath(stem[p]))
             \/ fs[FullPath(stem[p])] = File(<<>>) )

\* C3: after a successful invocation on a source of n segments the transcript
\* file holds exactly, for segment 1 to n in order, the segment's trimmed text
\* and one line break; nothing of an earlier invocation precedes it.
C3_TranscriptInOrder ==
    \A p \in Procs :
        (Returned(p) /\ dur[p] > 0)
        => /\ Len(outs[p]) = Ceil(dur[p], SEGMENT_MS)
           /\ fs[FullPath(stem[p])] = File(Concat(outs[p]))

\* a second invocation has returned the transcript of three segments of
\* which two differ
C3_Witness ==
    /\ runs = 2
    /\ Returned(1)
    /\ Len(outs[1]) = 3
    /\ outs[1][1] # outs[1][2]
    /\ fs[FullPath(stem[1])] = File(Concat(outs[1]))

\* C4: a source of duration D > 0 gives ceil(D / W) segments, numbered from 1,
\* that cover [0, D) without gap or overlap; each but the last is W long and
\* the last is D mod W long, or W when W divides D.
C4_Segmentation ==
    \A p \in Procs :
        (Returned(p) /\ dur[p] > 0)
        => LET s == segs[p]
               n == Len(s)
           IN  /\ n = Ceil(dur[p], SEGMENT_MS)
               /\ \A k \in 1..n : s[k][1] = k
               /\ s[1][2] = 0
               /\ s[n][3] = dur[p]
               /\ \A k \in 1..(n - 1) :
                     /\ s[k][3] = s[k + 1][2]
                     /\ s[k][3] - s[k][2] = SEGMENT_MS
               /\ s[n][3] - s[n][2] =
                     IF dur[p] % SEGMENT_MS = 0 THEN SEGMENT_MS
                     ELSE dur[p] % SEGMENT_MS

\* the source of 25 minutes has been cut into 10, 10 and 5 minutes
C4_Witness ==
    /\ Returned(1)
    /\ dur[1] = 2 * SEGMENT_MS + SEGMENT_MS \div 2
    /\ Len(segs[1]) = 3
    /\ segs[1][3][3] - segs[1][3][2] = SEGMENT_MS \div 2

\* C5: a source of zero duration or one that cannot be read makes the call
\* fail with an IO failure, before any segment is made and before the engine
\* runs; no transcript is returned.
C5_EmptyOrUnreadableFails ==
    \A p \in Procs :
        (pc[p] = "done" /\ dur[p] = 0)
        => /\ result[p].kind = "raise"
           /\ result[p].exc.type = "IOFailure"
           /\ segs[p] = <<>>
           /\ calls[p] = <<>>

\* C8: the engine is run at most once per segment, in increasing order of
\* index; once it fails on a segment no later segment is made or given to it,
\* and the caller gets the failure with the engine's error output.
C8_AbortWithoutRetry ==
    \A p \in Procs :
        LET c == calls[p]
        IN  /\ \A k \in 1..Len(c) : c[k].idx = k
            /\ \A k \in 1..(Len(c) - 1) : c[k].ok
            /\ Len(segs[p]) \in {Len(c), Len(c) + 1}
            /\ EngineFailed(p) =>
                  /\ Len(segs[p]) = Len(c)
                  /\ pc[p] \in {"cleanup", "final", "done"}
                  /\ exc[p] = [type |-> "EngineFailure", detail |-> c[Len(c)].err]
                  /\ pc[p] = "done" =>
                        /\ result[p].kind = "raise"
                        /\ result[p].exc = exc[p]

\* the engine failed on the second of three segments and the call has ended
C8_Witness ==
    /\ Raised(1)
    /\ Ceil(dur[1], SEGMENT_MS) = 3
    /\ Len(calls[1]) = 2
    /\ ~calls[1][2].ok
    /\ result[1].exc.detail = "e2"

\* C10: two concurrent invocations on sources of different stems touch no
\* temporary segment, per-segment transcript or transcript file of each other:
\* each finds the chunk it exported and the part the engine wrote for it, and
\* each that returns has its own transcript in order and no temporary file
\* left.
C10_DifferentStemsIsolated ==
    (pc[1] # "idle" /\ pc[2] # "idle" /\ stem[1] # stem[2])
    => /\ touched[1] \cap touched[2] = {}
       /\ \A p \in Procs :
             /\ \A path \in touched[p] : path[2] = stem[p]
             /\ pc[p] = "engine" => Exists(fs, ChunkPath(stem[p], i[p]))
             /\ pc[p] = "append" => Exists(fs, PartPath(stem[p], i[p]))
             /\ Returned(p) =>
                   /\ NoTemporaries(p)
                   /\ dur[p] > 0 => fs[FullPath(stem[p])] = File(Concat(outs[p]))

\* both invocations, of different stems, are at their second segment
C10_Witness ==
    /\ stem[1] # stem[2]
    /\ pc[1] = "append" /\ i[1] = 2
    /\ pc[2] = "append" /\ i[2] = 2
    /\ touched[1] # {} /\ touched[2] # {}

\* while two invocations of one stem are both under way, each finds the chunk
\* it exported and the part the engine wrote for it (the collision the code
\* does not prevent refutes this)
C10_SameStemNeverCollides ==
    ( /\ stem[1] = stem[2]
      /\ \A p \in Procs : pc[p] \notin {"idle", "done"} )
    => \A p \in Procs :
          /\ pc[p] = "engine" => Exists(fs, ChunkPath(stem[p], i[p]))
          /\ pc[p] = "append" => Exists(fs, PartPath(stem[p], i[p]))

(***************************************************************************)
(* The properties of the post-processing.                                  *)
(***************************************************************************)
\* the dedup key of section j of d
Key(d, j) == Strip(d[j].h[1])

\* d is a sequence of sections, each with a heading and none nested
AllHeaded(d) == \A j \in 1..Len(d) : d[j].h # <<>> /\ d[j].child = <<>>

\* the sections whose key no earlier section has
Firsts(d) == {j \in 1..Len(d) : \A m \in 1..(j - 1) : Key(d, m) # Key(d, j)}

Deduped == phase = "deduped" /\ raw = RenderDoc(doc)

\* C6: of a sequence of sections with headings, deduplicate_sections keeps the
\* sections whose trimmed heading text occurs for the first time, in their
\* order, and removes the later ones whole, body included.
C6_FirstOccurrencesKept ==
    (Deduped /\ AllHeaded(doc)) => out = RenderFrom(doc, Firsts(doc), 1)

\* the keys A, B, A, C, B have given the sections 1, 2 and 4
C6_Witness ==
    /\ Deduped
    /\ Len(doc) = 5
    /\ AllHeaded(doc)
    /\ <<Key(doc, 1), Key(doc, 2), Key(doc, 3), Key(doc, 4), Key(doc, 5)>>
          = << <<"A">>, <<"B">>, <<"A">>, <<"C">>, <<"B">> >>
    /\ doc[1].h # doc[3].h
    /\ out = RenderFrom(doc, {1, 2, 4}, 1)

\* the section of the scenario
ScenarioSection ==
    <<O("section"), O("h2")>> \o Txt(<<"S", "k", "i", "l", "l", "s">>) \o <<C("h2")>>
    \o Txt(<<"X">>) \o <<C("section")>>

\* C7: sanitize_html of the fenced scenario returns exactly its section, with
\* no text before or after it.
C7_ScenarioExact ==
    (phase = "sanitized" /\ raw = Scenario) => out = ScenarioSection

\* C7 as amended: the fence markers are removed and the line break that
\* followed the opening fence stays before the section.
C7_ScenarioKeepsLineBreak ==
    (phase = "sanitized" /\ raw = Scenario) => out = <<Ch(LF)>> \o ScenarioSection

\* the scenario has been sanitized
C7_Witness == phase = "sanitized" /\ raw = Scenario /\ Ch(Backtick) \notin Range(out)

\* section j of d, or the section inside it, holds no h2
NoHeadingInside(d, j) ==
    d[j].h = <<>> /\ (d[j].child = <<>> \/ d[j].child[1].h = <<>>)

NestedNoHeading(d, j) == d[j].child # <<>> /\ d[j].child[1].h = <<>>

Present(c) == Ch(c) \in Range(out)

\* C9: every section without a heading, nested ones included, is still in the
\* output.
C9_HeadinglessAlwaysKept ==
    Deduped =>
        \A j \in 1..Len(doc) :
            /\ NoHeadingInside(doc, j) => Present(Body(j))
            /\ NestedNoHeading(doc, j) => Present(ChildBody(j))

\* C9 as amended: a section without a heading is never removed for itself; it
\* is missing from the output only when the section around it was removed.
C9_HeadinglessKeptUnlessEnclosed ==
    Deduped =>
        \A j \in 1..Len(doc) :
            /\ NoHeadingInside(doc, j) => Present(Body(j))
            /\ NestedNoHeading(doc, j) => (Present(ChildBody(j)) \/ ~Present(Body(j)))

\* a nested section without a heading went with the repeated section around it,
\* and a section without a heading at the top was kept
C9_Witness ==
    /\ Deduped
    /\ \E j \in 1..Len(doc) :
          NestedNoHeading(doc, j) /\ ~Present(ChildBody(j)) /\ ~Present(Body(j))
    /\ \E j \in 1..Len(doc) : NoHeadingInside(doc, j) /\ Present(Body(j))

====
